---- MODULE Spec2Model ----
(***************************************************************************)
(* A model of src/main.rs: the startup system setup_scene and the two      *)
(* per-frame systems update_bloom_settings and bounce_spheres, run by the  *)
(* engine's frame loop.                                                    *)
(*                                                                         *)
(* Numbers.  The program computes in f32.  The model keeps the same        *)
(* operations in fixed point:                                              *)
(*   - bloom parameters in thousandths (1.0 is 1000),                      *)
(*   - times in milliseconds, so that dt / 10 is (dt \div 10) thousandths, *)
(*   - angles held by the projection in 1e-4 radian, angles written in     *)
(*     the source in whole degrees and shown in the text in hundredths of  *)
(*     a degree; to_radians and to_degrees are the rounding conversions,   *)
(*   - sphere coordinates in thousandths, the sine by its Taylor series.   *)
(* The u64 hash is four 16-bit limbs, most significant first.              *)
(***************************************************************************)
EXTENDS Integers, Sequences, FiniteSets, TLC

\* ------------------------------------------------------------------ bounds

\* Frames the frame loop runs in a behaviour of Spec.
MaxFrames == 2
\* Key-repeat press events delivered in one frame by a long hold.
HoldBurst == 30
\* Frames of a behaviour of SpecHold.
MaxHoldFrames == 4
\* Hash values 0..MaxHashLow (and their mirror images below 2^64) are tried.
MaxHashLow == 30
\* Frames of a behaviour of SpecToggle.
MaxToggleFrames == 3
\* Frames of a behaviour of SpecAdjust.
MaxAdjustFrames == 2
\* Key-repeat press events of `[` in one frame that, delivered in two frames,
\* take the field of view from 75 degrees past 180 degrees.
FovBurst == 28
\* Press events of L that take the low-frequency boost from 0.7 below 0 at
\* dt = 1 s.
BoostBurst == 8

\* ------------------------------------------------------------- f32 helpers

Min(a, b) == IF a <= b THEN a ELSE b

Max(a, b) == IF a >= b THEN a ELSE b

\* f32 1.0, in thousandths.
One == 1000

\* Fault: f32::clamp(lo, hi) that returns its argument.
ClampDropped(v, lo, hi) == v

\* f32::clamp(lo, hi).
Clamp(v, lo, hi) == Max(lo, Min(v, hi))

\* pi in 1e-4 radian.
PiE4 == 31416

\* f32::to_radians: whole degrees to 1e-4 radian, rounded to nearest.
ToRadians(deg) == (deg * PiE4 + 90) \div 180

\* f32::to_degrees: 1e-4 radian to hundredths of a degree, rounded to nearest.
ToDegrees(rad) == (rad * 18000 + (PiE4 \div 2)) \div PiE4

\* const INITIAL_FOV, in degrees.
INITIAL_FOV == 75

\* The Taylor series of the sine on [0, pi/2], argument and value in thousandths.
SinSeries(x) ==
    LET x2 == (x * x) \div 1000
        x3 == (x2 * x) \div 1000
        x5 == (x3 * x2) \div 1000
        x7 == (x5 * x2) \div 1000
    IN  x - (x3 \div 6) + (x5 \div 120) - (x7 \div 5040)

\* f32::sin, argument and value in thousandths.
Sin(a) ==
    LET r == a % 6283
    IN  IF r <= 1571 THEN SinSeries(r)
        ELSE IF r <= 3142 THEN SinSeries(3142 - r)
        ELSE IF r <= 4713 THEN 0 - SinSeries(r - 3142)
        ELSE 0 - SinSeries(6283 - r)

\* ------------------------------------------------------------------- keys

\* The key codes the controller matches on, and one it does not (KeyW).
BoundKeys ==
    {"BracketLeft", "BracketRight", "KeyP", "Semicolon", "KeyO", "KeyL",
     "KeyI", "KeyK", "KeyU", "KeyJ", "KeyY", "KeyH", "KeyT", "KeyG",
     "KeyR", "KeyF", "Space"}

KeyCodes == BoundKeys \cup {"KeyW"}

\* A KeyboardInput event.
KeyboardInput(k, s) == [key_code |-> k, state |-> s]

Pressed(k) == KeyboardInput(k, "Pressed")

Released(k) == KeyboardInput(k, "Released")

\* ------------------------------------------------------------------ bloom

\* BloomSettings::NATURAL.
NATURAL ==
    [intensity |-> 150,
     low_frequency_boost |-> 700,
     low_frequency_boost_curvature |-> 950,
     high_pass_frequency |-> 1000,
     composite_mode |-> "EnergyConserving",
     threshold |-> 0,
     threshold_softness |-> 0]

\* BloomSettings::OLD_SCHOOL, the engine's other preset; inserting it instead
\* of NATURAL is a fault.
OLD_SCHOOL ==
    [intensity |-> 50,
     low_frequency_boost |-> 700,
     low_frequency_boost_curvature |-> 950,
     high_pass_frequency |-> 1000,
     composite_mode |-> "Additive",
     threshold |-> 600,
     threshold_softness |-> 200]

\* The component the Bloom-Disabled branch inserts.
InsertedSettings == NATURAL

\* The component setup_scene spawns the camera with.
SpawnedSettings == NATURAL

VARIABLES
    camera_bloom,        \* Option<BloomSettings> of the camera: <<>> or <<settings>>
    fov,                 \* PerspectiveProjection.fov of the camera, 1e-4 radian
    text,                \* sections[0].value of the text entity
    spheres,             \* Transform.translation of each Bouncing entity, by cell
    events_a,            \* Events<KeyboardInput>: older buffer, events the controller's reader has not read
    events_b,            \* Events<KeyboardInput>: newer buffer, events the controller's reader has not read
    space_pressed,       \* ButtonInput<KeyCode>: Space in pressed
    space_just_pressed,  \* ButtonInput<KeyCode>: Space in just_pressed
    delta,               \* Time::delta_seconds, ms
    elapsed,             \* Time::elapsed_seconds, ms
    commands,            \* Commands queued by this frame's systems, applied when Update ends
    phase,               \* "idle" between frames, "update" while the Update schedule runs
    ran,                 \* the Update systems that have run in this frame
    frame,               \* frames completed
    space_ever,          \* history: a Space press event has been delivered
    space_sent,          \* history: a Space press event was delivered for the current frame
    entities,            \* the World's entities: entity index -> the component types it has
    overflow_checks,     \* the build profile: TRUE when integer overflow panics
    hash,                \* hasher.finish() of the cell under selection
    selection            \* the result of the material selection for hash

vars ==
    <<camera_bloom, fov, text, spheres, events_a, events_b, space_pressed,
      space_just_pressed, delta, elapsed, commands, phase, ran, frame,
      space_ever, space_sent, entities, overflow_checks, hash, selection>>

\* ------------------------------------------------------------ setup_scene

\* for x in -5..5 { for z in -5..5 {
GridLow == -5

GridHigh == 4

Cells == (GridLow..GridHigh) \X (GridLow..GridHigh)

\* Transform::from_xyz(x as f32 * 2.0, 0.0, z as f32 * 2.0), in thousandths.
SpawnTranslation(c) == [x |-> c[1] * 2000, y |-> 0, z |-> c[2] * 2000]

\* The status text of the Bloom-Disabled branch.
OffText == [head |-> "Bloom: Off (Toggle: Space)", shown |-> <<>>]

\* TextBundle::from_section("", ...).
EmptyText == [head |-> "", shown |-> <<>>]

\* The entities setup_scene spawns, by index in spawn order: the camera, the
\* spheres (x outer, z inner), the text.
CameraEntity == 0

SphereEntity(c) == 1 + (c[1] - GridLow) * (GridHigh - GridLow + 1) + (c[2] - GridLow)

TextEntity == 1 + Cardinality(Cells)

\* The component types of a spawned entity that the program's queries name.
SpawnedComponents(e) ==
    IF e = CameraEntity
    THEN {"Camera", "Projection", "Transform", "BloomSettings", "FlyCam"}
    ELSE IF e = TextEntity THEN {"Text"}
    ELSE {"Transform", "Bouncing"}

\* The World after setup_scene's commands are applied.
SpawnedEntities == [e \in CameraEntity..TextEntity |-> SpawnedComponents(e)]

\* What a Query with the filter With<component> iterates over.
QueryWith(ents, component) == {e \in DOMAIN ents : component \in ents[e]}


\* The status text of the Bloom-Enabled branch: the values the format! calls
\* print.  {} of an f32 prints the shortest decimal that parses back to the
\* same f32, so a printed number is kept as the number.
StatusText(bloom_settings, persp_fov) ==
    [head |-> "BloomSettings (Toggle: Space)",
     shown |-> <<[intensity |-> bloom_settings.intensity,
                  low_frequency_boost |-> bloom_settings.low_frequency_boost,
                  low_frequency_boost_curvature |->
                      bloom_settings.low_frequency_boost_curvature,
                  high_pass_frequency |-> bloom_settings.high_pass_frequency,
                  mode |-> IF bloom_settings.composite_mode = "EnergyConserving"
                           THEN "Energy-conserving" ELSE "Additive",
                  threshold |-> bloom_settings.threshold,
                  threshold_softness |-> bloom_settings.threshold_softness,
                  fov |-> ToDegrees(persp_fov)]>>]

\* -------------------------------------------------- update_bloom_settings

\* let increase = 2f32.to_radians();
Increase == ToRadians(2)

\* if ev.key_code == <the increase key> { 1f32 } else { -1f32 }
Sign(key_code, up) == IF key_code = up THEN 1 ELSE -1

\* Fault: the field-of-view step scaled by the frame time, 2 degrees per second.
FovStepPerSecond(key_code, dt) ==
    ((Increase * dt) \div 1000) * Sign(key_code, "BracketLeft")

\* increase * if ev.key_code == KeyCode::BracketLeft { 1f32 } else { -1f32 }
FovStep(key_code, dt) == Increase * Sign(key_code, "BracketLeft")

\* dt / 10f32 * if ev.key_code == up { 1f32 } else { -1f32 }
Step(key_code, up, dt) == (dt \div 10) * Sign(key_code, up)

\* Fault: the catch-all arm doing what the KeyCode::Space arm does.
OtherKeyRemoves(st) == [st EXCEPT !.commands = Append(@, "remove")]

\* _ => {}
OtherKey(st) == st

\* Fault: the two composite modes the wrong way round.
CompositeModeSwapped(key_code) ==
    IF key_code = "KeyY" THEN "EnergyConserving" ELSE "Additive"

\* if ev.key_code == KeyCode::KeyY { BloomCompositeMode::Additive }
\* else { BloomCompositeMode::EnergyConserving }
CompositeMode(key_code) ==
    IF key_code = "KeyY" THEN "Additive" ELSE "EnergyConserving"

\* One iteration of `for ev in key_evr.read()`.  st holds what the loop
\* mutates: the BloomSettings component, persp.fov and the command queue.
KeyEvent(st, ev, dt) ==
    LET k == ev.key_code
        b == st.bloom_settings
    IN  IF ev.state = "Released" THEN st
        ELSE IF k \in {"BracketLeft", "BracketRight"} THEN
            [st EXCEPT !.fov = Clamp(@ + FovStep(k, dt), 0, ToRadians(180))]
        ELSE IF k \in {"KeyP", "Semicolon"} THEN
            [st EXCEPT !.bloom_settings.intensity =
                Clamp(@ + Step(k, "KeyP", dt), 0, One)]
        ELSE IF k \in {"KeyO", "KeyL"} THEN
            [st EXCEPT !.bloom_settings.low_frequency_boost =
                @ + Step(k, "KeyO", dt)]
        ELSE IF k \in {"KeyI", "KeyK"} THEN
            [st EXCEPT !.bloom_settings.low_frequency_boost_curvature =
                Clamp(@ + Step(k, "KeyI", dt), 0, One)]
        ELSE IF k \in {"KeyU", "KeyJ"} THEN
            [st EXCEPT !.bloom_settings.high_pass_frequency =
                Clamp(@ + Step(k, "KeyU", dt), 0, One)]
        ELSE IF k \in {"KeyY", "KeyH"} THEN
            [st EXCEPT !.bloom_settings.composite_mode = CompositeMode(k)]
        ELSE IF k \in {"KeyT", "KeyG"} THEN
            [st EXCEPT !.bloom_settings.threshold =
                Max(@ + Step(k, "KeyT", dt), 0)]
        ELSE IF k \in {"KeyR", "KeyF"} THEN
            [st EXCEPT !.bloom_settings.threshold_softness =
                Clamp(@ + Step(k, "KeyR", dt), 0, One)]
        ELSE IF k = "Space" THEN
            [st EXCEPT !.commands = Append(@, "remove")]
        ELSE OtherKey(st)

\* Fault: a loop that handles only the newest event of the frame.
KeyEventsNewestOnly(st, evs, dt) ==
    IF evs = <<>> THEN st ELSE KeyEvent(st, evs[Len(evs)], dt)

\* for ev in key_evr.read() { ... }
RECURSIVE KeyEvents(_, _, _)
KeyEvents(st, evs, dt) ==
    IF evs = <<>> THEN st
    ELSE KeyEvents(KeyEvent(st, Head(evs), dt), Tail(evs), dt)

\* What key_evr.read() yields: every event still in the two buffers that this
\* reader has not read, oldest first.
Unread(w) == w.events_a \o w.events_b

\* Fault: the Bloom-Enabled arm with the text written after the loop.
BloomEnabledTextLast(w) ==
    LET st == KeyEvents([bloom_settings |-> w.camera_bloom[1], fov |-> w.fov,
                         commands |-> w.commands], Unread(w), w.delta)
    IN  [w EXCEPT !.text = StatusText(st.bloom_settings, st.fov),
                  !.camera_bloom = <<st.bloom_settings>>,
                  !.fov = st.fov,
                  !.commands = st.commands,
                  !.events_a = <<>>,
                  !.events_b = <<>>]

\* (entity, Some(mut bloom_settings)) => { ... }
BloomEnabled(w) ==
    LET st == KeyEvents([bloom_settings |-> w.camera_bloom[1], fov |-> w.fov,
                         commands |-> w.commands], Unread(w), w.delta)
    IN  [w EXCEPT !.text = StatusText(w.camera_bloom[1], w.fov),
                  !.camera_bloom = <<st.bloom_settings>>,
                  !.fov = st.fov,
                  !.commands = st.commands,
                  !.events_a = <<>>,
                  !.events_b = <<>>]

\* Fault: a None arm that also runs the event loop for the field of view.
BloomDisabledReadsKeys(w) ==
    LET st == KeyEvents([bloom_settings |-> NATURAL, fov |-> w.fov,
                         commands |-> <<>>], Unread(w), w.delta)
    IN  [w EXCEPT !.text = OffText,
                  !.fov = st.fov,
                  !.events_a = <<>>,
                  !.events_b = <<>>,
                  !.commands = IF w.space_just_pressed
                               THEN Append(@, "insert") ELSE @]

\* (entity, None) => { ... }
BloomDisabled(w) ==
    [w EXCEPT !.text = OffText,
              !.commands = IF w.space_just_pressed
                           THEN Append(@, "insert") ELSE @]

\* fn update_bloom_settings, on the world w.  The camera's projection is the
\* PerspectiveProjection setup_scene gave it, so the let-else never returns.
update_bloom_settings(w) ==
    IF w.camera_bloom # <<>> THEN BloomEnabled(w) ELSE BloomDisabled(w)

\* --------------------------------------------------------- bounce_spheres

\* Fault: the sine added to the previous height.
BounceTranslationAdded(t, elapsed_seconds) ==
    [t EXCEPT !.y = @ + Sin(t.x + t.z + elapsed_seconds)]

\* transform.translation.y = (x + z + time.elapsed_seconds()).sin()
BounceTranslation(t, elapsed_seconds) ==
    [t EXCEPT !.y = Sin(t.x + t.z + elapsed_seconds)]

\* Fault: bounce_spheres writing to the text entity as well, an entity of the
\* controller.
bounce_spheres_and_text(w) ==
    [w EXCEPT !.spheres = [c \in Cells |-> BounceTranslation(w.spheres[c], w.elapsed)],
              !.text = EmptyText]

\* fn bounce_spheres, on the world w.
bounce_spheres(w) ==
    [w EXCEPT !.spheres = [c \in Cells |-> BounceTranslation(w.spheres[c], w.elapsed)]]

\* ------------------------------------------------------------- the engine

\* ButtonInput::press and ButtonInput::release for Space, the one key the
\* program asks ButtonInput about; b is [pressed, just_pressed].
RECURSIVE ButtonInputSpace(_, _)
ButtonInputSpace(b, evs) ==
    IF evs = <<>> THEN b
    ELSE LET ev == Head(evs)
             nb == IF ev.key_code # "Space" THEN b
                   ELSE IF ev.state = "Pressed"
                        THEN [pressed |-> TRUE,
                              just_pressed |-> b.just_pressed \/ ~b.pressed]
                        ELSE [b EXCEPT !.pressed = FALSE]
         IN  ButtonInputSpace(nb, Tail(evs))

\* Fault: a queued command that is dropped.
ApplyCommandLost(bloom, cmd) == bloom

\* commands.entity(entity).remove::<BloomSettings>() and
\* commands.entity(entity).insert(BloomSettings::NATURAL), when applied.
ApplyCommand(bloom, cmd) ==
    IF cmd = "remove" THEN <<>> ELSE <<InsertedSettings>>

RECURSIVE ApplyCommands(_, _)
ApplyCommands(bloom, cmds) ==
    IF cmds = <<>> THEN bloom
    ELSE ApplyCommands(ApplyCommand(bloom, Head(cmds)), Tail(cmds))

\* The entity of camera.single_mut(), which the commands are queued for.
QueriedCamera(ents) == CHOOSE e \in QueryWith(ents, "Camera") : TRUE

\* Fault: the insertion done by spawning a second camera that carries the set.
ApplyEntityCommandSpawns(ents, cmd) ==
    IF cmd = "remove"
    THEN [ents EXCEPT ![QueriedCamera(ents)] = @ \ {"BloomSettings"}]
    ELSE [e \in DOMAIN ents \cup {Cardinality(DOMAIN ents)} |->
             IF e \in DOMAIN ents THEN ents[e] ELSE {"Camera", "BloomSettings"}]

\* The same two commands, on the World's entities: remove and insert change
\* the component set of the entity they were queued for.
ApplyEntityCommand(ents, cmd) ==
    [ents EXCEPT ![QueriedCamera(ents)] =
        IF cmd = "remove" THEN @ \ {"BloomSettings"} ELSE @ \cup {"BloomSettings"}]

RECURSIVE ApplyEntityCommands(_, _)
ApplyEntityCommands(ents, cmds) ==
    IF cmds = <<>> THEN ents
    ELSE ApplyEntityCommands(ApplyEntityCommand(ents, Head(cmds)), Tail(cmds))

\* The world the Update systems run on.
World ==
    [camera_bloom |-> camera_bloom, fov |-> fov, text |-> text,
     spheres |-> spheres, events_a |-> events_a, events_b |-> events_b,
     space_just_pressed |-> space_just_pressed, delta |-> delta,
     elapsed |-> elapsed, commands |-> commands]

\* The world after a system has run.
Becomes(w) ==
    /\ camera_bloom' = w.camera_bloom
    /\ fov' = w.fov
    /\ text' = w.text
    /\ spheres' = w.spheres
    /\ events_a' = w.events_a
    /\ events_b' = w.events_b
    /\ commands' = w.commands
    /\ UNCHANGED <<space_pressed, space_just_pressed, delta, elapsed>>

\* -------------------------------------------------------------- selection

\* 2^16: a u64 is four limbs in 0..LimbBase-1, most significant first.
LimbBase == 65536

\* h < 2, where `hasher.finish() - 2` overflows.
Below2(h) == h[1] = 0 /\ h[2] = 0 /\ h[3] = 0 /\ h[4] < 2

\* u64 wrapping addition of a small n.
WrappingAdd(h, n) ==
    LET s4 == h[4] + n
        s3 == h[3] + (s4 \div LimbBase)
        s2 == h[2] + (s3 \div LimbBase)
        s1 == h[1] + (s2 \div LimbBase)
    IN  <<s1 % LimbBase, s2 % LimbBase, s3 % LimbBase, s4 % LimbBase>>

\* u64 wrapping subtraction of 2.
WrappingSub2(h) ==
    LET b4 == IF h[4] < 2 THEN 1 ELSE 0
        b3 == IF h[3] < b4 THEN 1 ELSE 0
        b2 == IF h[2] < b3 THEN 1 ELSE 0
    IN  <<(h[1] - b2) % LimbBase, (h[2] - b3) % LimbBase,
          (h[3] - b4) % LimbBase, (h[4] - 2) % LimbBase>>

\* h % 6.
Mod6(h) ==
    LET r1 == h[1] % 6
        r2 == (r1 * LimbBase + h[2]) % 6
        r3 == (r2 * LimbBase + h[3]) % 6
    IN  (r3 * LimbBase + h[4]) % 6

\* match rand { 0 => ..., 1 => ..., 2 => ..., 3..=5 => ..., _ => unreachable!() }
MaterialOf(rand) ==
    CASE rand = 0 -> "material_emissive1"
      [] rand = 1 -> "material_emissive2"
      [] rand = 2 -> "material_emissive3"
      [] rand \in 3..5 -> "material_non_emissive"
      [] OTHER -> "unreachable"

\* let rand = (hasher.finish() - 2) % 6; let material = match rand { ... };
\* `-` panics on overflow in a build with overflow checks and wraps in one
\* without.
SelectMaterial(h, checks) ==
    IF Below2(h) /\ checks
    THEN [status |-> "panicked", rand |-> -1, material |-> "none"]
    ELSE LET rand == Mod6(WrappingSub2(h))
         IN  [status |-> "selected", rand |-> rand, material |-> MaterialOf(rand)]

Pending == [status |-> "pending", rand |-> -1, material |-> "none"]

\* The hash values tried: the smallest and the largest of u64.
HashInputs ==
    {<<0, 0, 0, n>> : n \in 0..MaxHashLow}
        \cup {<<LimbBase - 1, LimbBase - 1, LimbBase - 1, LimbBase - 1 - n>> :
                  n \in 0..MaxHashLow}
        \cup {<<0, 0, 1, 0>>, <<0, 1, 0, 1>>, <<1, 0, 0, 0>>}

\* ------------------------------------------------------------------ inputs

\* Frame times, ms: Time's delta is 0 in the first frame and positive later.
FrameTimes == {0, 1000}

\* The events of one frame, as the window runner delivers them before the
\* frame: nothing, any one press, a release, some pairs around the toggle, or
\* a burst of key repeats.
SingleEvents ==
    {Pressed(k) : k \in KeyCodes} \cup {Released("Space"), Released("KeyP")}

PairInputs ==
    {<<Pressed("BracketLeft"), Pressed("Space")>>,
     <<Released("Space"), Pressed("Space")>>,
     <<Pressed("Semicolon"), Pressed("Semicolon")>>,
     <<Pressed("Space"), Pressed("Semicolon")>>,
     <<Pressed("Space"), Pressed("Space")>>}

Burst(k) == [i \in 1..HoldBurst |-> Pressed(k)]

FrameInputs ==
    {<<>>} \cup {<<e>> : e \in SingleEvents}
        \cup PairInputs
        \cup {Burst("BracketLeft"), Burst("BracketRight")}

\* ----------------------------------------------------------------- actions

InitScene ==
    /\ camera_bloom = <<SpawnedSettings>>
    /\ fov = ToRadians(INITIAL_FOV)
    /\ text = EmptyText
    /\ spheres = [c \in Cells |-> SpawnTranslation(c)]
    /\ events_a = <<>>
    /\ events_b = <<>>
    /\ space_pressed = FALSE
    /\ space_just_pressed = FALSE
    /\ delta = 0
    /\ elapsed = 0
    /\ commands = <<>>
    /\ phase = "idle"
    /\ ran = {}
    /\ frame = 0
    /\ space_ever = FALSE
    /\ space_sent = FALSE
    /\ entities = SpawnedEntities

\* The frame loop starts from the scene setup_scene built: the selection of
\* every cell has completed; one cell's hash and selection stand for them.
Init ==
    /\ InitScene
    /\ overflow_checks = FALSE
    /\ hash = <<0, 0, 0, 2>>
    /\ selection = SelectMaterial(hash, overflow_checks)

\* What happens between the end of one frame and the Update schedule of the
\* next: the runner sends the frame's KeyboardInput events, Time advances by
\* dt, event_update_system swaps the buffers when the engine's update signal
\* is set (upd), and keyboard_input_system feeds the events to ButtonInput.
BeginFrame(evs, dt, upd) ==
    /\ phase = "idle"
    /\ LET sent == events_b \o evs
           b == ButtonInputSpace([pressed |-> space_pressed,
                                  just_pressed |-> FALSE], evs)
       IN  /\ events_a' = IF upd THEN sent ELSE events_a
           /\ events_b' = IF upd THEN <<>> ELSE sent
           /\ space_pressed' = b.pressed
           /\ space_just_pressed' = b.just_pressed
    /\ delta' = dt
    /\ elapsed' = elapsed + dt
    /\ space_ever' = (space_ever \/ \E i \in 1..Len(evs) : evs[i] = Pressed("Space"))
    /\ space_sent' = (\E i \in 1..Len(evs) : evs[i] = Pressed("Space"))
    /\ phase' = "update"
    /\ ran' = {}
    /\ UNCHANGED <<camera_bloom, fov, text, spheres, commands, frame,
                   entities, overflow_checks, hash, selection>>

FrameStart ==
    /\ frame < MaxFrames
    /\ \E evs \in FrameInputs, dt \in FrameTimes, upd \in BOOLEAN :
           BeginFrame(evs, dt, upd)

UpdateBloomSettings ==
    /\ phase = "update"
    /\ "update_bloom_settings" \notin ran
    /\ Becomes(update_bloom_settings(World))
    /\ ran' = ran \cup {"update_bloom_settings"}
    /\ UNCHANGED <<phase, frame, space_ever, space_sent, entities,
                   overflow_checks, hash, selection>>

BounceSpheres ==
    /\ phase = "update"
    /\ "bounce_spheres" \notin ran
    /\ Becomes(bounce_spheres(World))
    /\ ran' = ran \cup {"bounce_spheres"}
    /\ UNCHANGED <<phase, frame, space_ever, space_sent, entities,
                   overflow_checks, hash, selection>>

\* The end of the Update schedule: the queued commands are applied.
FrameEnd ==
    /\ phase = "update"
    /\ ran = {"update_bloom_settings", "bounce_spheres"}
    /\ camera_bloom' = ApplyCommands(camera_bloom, commands)
    /\ entities' = ApplyEntityCommands(entities, commands)
    /\ commands' = <<>>
    /\ phase' = "idle"
    /\ frame' = frame + 1
    /\ UNCHANGED <<fov, text, spheres, events_a, events_b, space_pressed,
                   space_just_pressed, delta, elapsed, ran, space_ever,
                   space_sent, overflow_checks, hash, selection>>

Next == FrameStart \/ UpdateBloomSettings \/ BounceSpheres \/ FrameEnd

Spec == Init /\ [][Next]_vars

\* ------------------------------------------------------ holding a key down

\* The events of one frame while `[` is held: the press and the key repeats
\* the window system sent since the last frame.
HoldInputs ==
    {[i \in 1..n |-> Pressed("BracketLeft")] : n \in {0, 1, 2, HoldBurst}}

HoldFrameStart ==
    /\ frame < MaxHoldFrames
    /\ \E evs \in HoldInputs, dt \in FrameTimes, upd \in BOOLEAN :
           BeginFrame(evs, dt, upd)

NextHold == HoldFrameStart \/ UpdateBloomSettings \/ BounceSpheres \/ FrameEnd

SpecHold == Init /\ [][NextHold]_vars

\* ------------------------------------------------ adjusting the parameters

\* The keys of the dt-scaled parameters and of the field of view.
AdjustKeys ==
    {"BracketLeft", "BracketRight", "KeyP", "Semicolon", "KeyO", "KeyL",
     "KeyI", "KeyK", "KeyU", "KeyJ", "KeyT", "KeyG", "KeyR", "KeyF"}

\* Several events in one frame, in the order the window system sent them.
AdjustSequences ==
    {<<Pressed("Semicolon"), Pressed("Semicolon"), Pressed("KeyP")>>,
     <<Pressed("KeyG"), Pressed("KeyT")>>,
     <<Pressed("KeyP"), Released("KeyP"), Pressed("KeyI"), Pressed("KeyK")>>,
     [i \in 1..BoostBurst |-> Pressed("KeyL")],
     [i \in 1..FovBurst |-> Pressed("BracketLeft")]
         \o <<Pressed("BracketRight"), Pressed("Semicolon"), Pressed("Semicolon"),
              Pressed("KeyP")>>,
     <<Pressed("KeyY"), Pressed("KeyY")>>,
     <<Pressed("KeyH"), Pressed("KeyH")>>,
     <<Pressed("KeyY"), Pressed("KeyP"), Pressed("KeyH")>>}

\* The events of one frame while the user adjusts: nothing, one press of an
\* adjustment key or of a mode key, a release, or one of the sequences.
AdjustInputs ==
    {<<>>} \cup {<<Pressed(k)>> : k \in AdjustKeys \cup {"KeyY", "KeyH"}}
        \cup {<<Released("KeyP")>>, <<Released("BracketLeft")>>, <<Released("KeyY")>>}
        \cup AdjustSequences

AdjustFrameStart ==
    /\ frame < MaxAdjustFrames
    /\ \E evs \in AdjustInputs, dt \in FrameTimes, upd \in BOOLEAN :
           BeginFrame(evs, dt, upd)

NextAdjust == AdjustFrameStart \/ UpdateBloomSettings \/ BounceSpheres \/ FrameEnd

SpecAdjust == Init /\ [][NextAdjust]_vars

\* ------------------------------------------------------ toggling the bloom

\* The events of one frame while the user toggles: nothing, Space going down,
\* up, or up and down again, or one of three adjustment keys.
ToggleInputs ==
    {<<>>, <<Pressed("Space")>>, <<Released("Space")>>,
     <<Released("Space"), Pressed("Space")>>,
     <<Pressed("BracketLeft")>>, <<Pressed("BracketRight")>>,
     <<Pressed("KeyP")>>}

ToggleFrameStart ==
    /\ frame < MaxToggleFrames
    /\ \E evs \in ToggleInputs, dt \in FrameTimes, upd \in BOOLEAN :
           BeginFrame(evs, dt, upd)

NextToggle == ToggleFrameStart \/ UpdateBloomSettings \/ BounceSpheres \/ FrameEnd

SpecToggle == Init /\ [][NextToggle]_vars

\* ------------------------------------------------- the material selection

InitSelect ==
    /\ InitScene
    /\ overflow_checks \in BOOLEAN
    /\ hash \in HashInputs
    /\ selection = Pending

\* The body of the loop over the cells, for the cell whose hash is `hash`.
Select ==
    /\ selection.status = "pending"
    /\ selection' = SelectMaterial(hash, overflow_checks)
    /\ UNCHANGED <<camera_bloom, fov, text, spheres, events_a, events_b,
                   space_pressed, space_just_pressed, delta, elapsed, commands,
                   phase, ran, frame, space_ever, space_sent, entities,
                   overflow_checks, hash>>

\* The loop goes on to the next cell, whose hash is any value; a panic has
\* ended the process.
NextCell ==
    /\ selection.status = "selected"
    /\ hash' \in HashInputs
    /\ selection' = Pending
    /\ UNCHANGED <<camera_bloom, fov, text, spheres, events_a, events_b,
                   space_pressed, space_just_pressed, delta, elapsed, commands,
                   phase, ran, frame, space_ever, space_sent, entities,
                   overflow_checks>>

NextSelect == Select \/ NextCell

SpecSelect == InitSelect /\ [][NextSelect]_vars


\* ------------------------------------------------------------------ claims

\* A step in which update_bloom_settings runs.
ControllerStep ==
    "update_bloom_settings" \notin ran /\ "update_bloom_settings" \in ran'

\* The step that ends a frame: the queued commands are applied.
FrameEndStep == phase = "update" /\ phase' = "idle"

SpacePressAmong(evs) == \E i \in 1..Len(evs) : evs[i] = Pressed("Space")

\* C1: in every reachable state the field of view is within [0, 180 degrees],
\* and where the camera has a bloom set its intensity, low-frequency boost
\* curvature, high-pass frequency and threshold softness are within [0, 1] and
\* its threshold is at least 0.
C1_ParametersInRange ==
    /\ 0 <= fov /\ fov <= ToRadians(180)
    /\ camera_bloom # <<>> =>
           LET b == camera_bloom[1]
           IN  /\ 0 <= b.intensity /\ b.intensity <= One
               /\ 0 <= b.low_frequency_boost_curvature
               /\ b.low_frequency_boost_curvature <= One
               /\ 0 <= b.high_pass_frequency /\ b.high_pass_frequency <= One
               /\ 0 <= b.threshold_softness /\ b.threshold_softness <= One
               /\ 0 <= b.threshold

\* C1's case: bloom is enabled and the field of view sits at 180 degrees, which
\* from 75 degrees in steps of 2 only the clamp produces.
C1_Witness ==
    /\ phase = "idle"
    /\ camera_bloom # <<>>
    /\ fov = ToRadians(180)

\* C2: as long as no Space press event has ever been delivered, no step
\* changes whether the camera has a bloom set.
C2_NoSpaceNoToggle ==
    [][~space_ever' => ((camera_bloom' = <<>>) <=> (camera_bloom = <<>>))]_vars

\* C2's case: two frames have passed without a Space press and other keys
\* have changed the bloom set.
C2_Witness ==
    /\ ~space_ever
    /\ frame >= 2
    /\ camera_bloom # <<>>
    /\ camera_bloom[1] # NATURAL

\* C3: while the camera has no bloom set no step changes the field of view,
\* and a frame of Bloom-Disabled in which Space was just pressed ends with the
\* camera holding a bloom set equal to the NATURAL preset.
C3_ToggleOnIsNatural ==
    [][/\ camera_bloom = <<>> => fov' = fov
       /\ (FrameEndStep /\ camera_bloom = <<>> /\ space_just_pressed)
              => camera_bloom' = <<NATURAL>>]_vars

\* C3's case: bloom has been toggled back on in the frame that just ended (the
\* text is the Bloom-Disabled hint) after the field of view was adjusted.
C3_Witness ==
    /\ phase = "idle"
    /\ text = OffText
    /\ camera_bloom = <<NATURAL>>
    /\ fov # ToRadians(INITIAL_FOV)

\* C4, as claimed: a frame of Bloom-Enabled that processed a Space press ends
\* with the bloom set removed and the text being the Bloom-Disabled hint.
C4_Claimed ==
    [][(FrameEndStep /\ camera_bloom # <<>> /\ commands # <<>>)
           => (camera_bloom' = <<>> /\ text' = OffText)]_vars

\* C4, amended: a controller step of Bloom-Enabled that reads a Space press
\* queues the removal; the frame ends with the bloom set removed and the text
\* still the Bloom-Enabled status text; the controller step of a frame that
\* starts without a bloom set writes the Bloom-Disabled hint.
C4_RemovedThenHintNextFrame ==
    [][/\ (ControllerStep /\ camera_bloom # <<>> /\ SpacePressAmong(Unread(World)))
              => (commands' # <<>> /\ camera_bloom' # <<>>)
       /\ (FrameEndStep /\ camera_bloom # <<>> /\ commands # <<>>)
              => (/\ camera_bloom' = <<>>
                  /\ text' = text
                  /\ text.head = "BloomSettings (Toggle: Space)")
       /\ (ControllerStep /\ camera_bloom = <<>>) => text' = OffText]_vars

\* C4's case: a frame has ended with the bloom set removed while the text is
\* the Bloom-Enabled status text.
C4_Witness ==
    /\ phase = "idle"
    /\ camera_bloom = <<>>
    /\ text.head = "BloomSettings (Toggle: Space)"

\* C5, as claimed: after the controller step of a Bloom-Enabled frame the text
\* shows the current values of the parameters.
C5_Claimed ==
    (/\ phase = "update"
     /\ "update_bloom_settings" \in ran
     /\ text.head = "BloomSettings (Toggle: Space)")
        => text = StatusText(camera_bloom[1], fov)

\* C5, amended: the text a controller step of Bloom-Enabled leaves shows the
\* values the parameters had when the step began.
C5_TextShowsValuesAtEntry ==
    [][(ControllerStep /\ camera_bloom # <<>>)
           => text' = StatusText(camera_bloom[1], fov)]_vars

\* C5's case: the controller has run in a Bloom-Enabled frame whose events
\* changed a parameter, and the text differs from the current values.
C5_Witness ==
    /\ phase = "update"
    /\ "update_bloom_settings" \in ran
    /\ text.head = "BloomSettings (Toggle: Space)"
    /\ text # StatusText(camera_bloom[1], fov)


\* The selections of the six consecutive hash values that start at h.
Window(h, checks) == [i \in 0..5 |-> SelectMaterial(WrappingAdd(h, i), checks)]

\* h + 5 does not pass 2^64 - 1.
WindowFits(h) ==
    ~(/\ h[1] = LimbBase - 1
      /\ h[2] = LimbBase - 1
      /\ h[3] = LimbBase - 1
      /\ h[4] > LimbBase - 6)

\* C6, as claimed: for every hash value the selection completes without
\* aborting, its number is (h - 2) mod 6 in wrapping arithmetic and lies in
\* 0..5, and 0, 1, 2 choose the three emissive materials and 3..5 the
\* non-emissive one, never the unreachable arm.
C6_Claimed ==
    selection.status # "pending" =>
        /\ selection.status = "selected"
        /\ selection.rand = Mod6(WrappingSub2(hash))
        /\ selection.rand \in 0..5
        /\ selection.material =
               (CASE selection.rand = 0 -> "material_emissive1"
                  [] selection.rand = 1 -> "material_emissive2"
                  [] selection.rand = 2 -> "material_emissive3"
                  [] OTHER -> "material_non_emissive")

\* C7, as claimed: of the six consecutive hash values that start at any h,
\* exactly three are mapped to the non-emissive material and the other three
\* to three different emissive materials.
C7_Claimed ==
    WindowFits(hash) =>
        LET win == Window(hash, overflow_checks)
            non == {i \in 0..5 : win[i].material = "material_non_emissive"}
            emi == {i \in 0..5 : win[i].material \in
                       {"material_emissive1", "material_emissive2",
                        "material_emissive3"}}
        IN  /\ \A i \in 0..5 : win[i].status = "selected"
            /\ Cardinality(non) = 3
            /\ Cardinality(emi) = 3
            /\ Cardinality({win[i].material : i \in emi}) = 3

\* C8: when a frame's Update schedule starts, running update_bloom_settings
\* and then bounce_spheres gives the same world as running them the other way
\* round: update_bloom_settings leaves the spheres as they are and gives the
\* same bloom set, field of view, text and commands whatever the spheres are,
\* and bounce_spheres changes nothing but the spheres' y and gives the same
\* spheres whatever update_bloom_settings has written.
C8_SystemsCommute ==
    (phase = "update" /\ ran = {}) =>
        LET w == World
            c == update_bloom_settings(w)
            b == bounce_spheres(w)
            cb == update_bloom_settings(b)
            bc == bounce_spheres(c)
        IN  /\ c.spheres = w.spheres
            /\ b = [w EXCEPT !.spheres = b.spheres]
            /\ \A cell \in Cells :
                   b.spheres[cell] = [w.spheres[cell] EXCEPT !.y = b.spheres[cell].y]
            /\ cb = [c EXCEPT !.spheres = b.spheres]
            /\ bc = cb

\* C8's case: in a frame with key events to read and time elapsed,
\* bounce_spheres has run and update_bloom_settings has not yet.
C8_Witness ==
    /\ phase = "update"
    /\ ran = {"bounce_spheres"}
    /\ Unread(World) # <<>>
    /\ elapsed > 0
    /\ camera_bloom # <<>>

\* The world with every sphere's y set to v.
WithHeights(w, v) ==
    [w EXCEPT !.spheres = [cell \in Cells |-> [w.spheres[cell] EXCEPT !.y = v]]]

\* C9: bounce_spheres leaves every sphere's x and z as they are, gives the
\* same result whatever the spheres' previous y, and applied twice at the same
\* elapsed time gives what it gives applied once; in every reachable state
\* each sphere's x and z are those it was spawned with.
C9_BounceIsRecomputation ==
    LET w == World
        b == bounce_spheres(w)
    IN  /\ \A cell \in Cells :
               /\ b.spheres[cell].x = w.spheres[cell].x
               /\ b.spheres[cell].z = w.spheres[cell].z
               /\ spheres[cell].x = SpawnTranslation(cell).x
               /\ spheres[cell].z = SpawnTranslation(cell).z
        /\ bounce_spheres(WithHeights(w, 777)) = b
        /\ bounce_spheres(b) = b

\* C9's case: bounce_spheres has run in two frames at different elapsed times
\* and has moved a sphere.
C9_Witness ==
    /\ frame >= 1
    /\ phase = "update"
    /\ "bounce_spheres" \in ran
    /\ elapsed > delta
    /\ delta > 0
    /\ \E cell \in Cells : spheres[cell].y # 0

\* The Pressed events for key k among evs.
RECURSIVE CountPressed(_, _)
CountPressed(evs, k) ==
    IF evs = <<>> THEN 0
    ELSE (IF Head(evs) = Pressed(k) THEN 1 ELSE 0) + CountPressed(Tail(evs), k)

\* C10, as claimed: with `[` held since the start, the field of view is
\* min(180 degrees, 75 degrees + N * step_rate) for some step rate, N being
\* the elapsed time.  The rate is in 1e-4 radian per second.
C10_Claimed ==
    phase = "idle" =>
        \E step_rate \in 0..PiE4 :
            fov = Min(ToRadians(180),
                      ToRadians(INITIAL_FOV) + (elapsed * step_rate) \div 1000)

\* C10, amended: a controller step of Bloom-Enabled that reads n press events
\* of `[` and none of `]` raises the field of view by n times 2 degrees, up
\* to 180 degrees, whatever the frame's dt.
C10_IncreasePerPressEvent ==
    [][(/\ ControllerStep
        /\ camera_bloom # <<>>
        /\ CountPressed(Unread(World), "BracketRight") = 0)
           => fov' = Min(ToRadians(180),
                         fov + CountPressed(Unread(World), "BracketLeft") * Increase)]_vars

\* C10's case: no time has elapsed and two press events of `[` have raised the
\* field of view by 4 degrees.
C10_Witness ==
    /\ phase = "idle"
    /\ elapsed = 0
    /\ camera_bloom # <<>>
    /\ fov = ToRadians(INITIAL_FOV) + 2 * Increase

\* C11, as claimed: once bloom is enabled it stays enabled until another
\* Space press event is delivered: a frame that starts with the camera holding
\* a bloom set, and for which no Space press event was delivered, ends with
\* the camera holding a bloom set.  The press that enabled bloom, delivered
\* for an earlier frame, is not read by the Bloom-Enabled branch.
C11_Claimed ==
    [][(FrameEndStep /\ camera_bloom # <<>> /\ ~space_sent)
           => camera_bloom' # <<>>]_vars

\* What C12 says one event does to the parameters p (the fields of the bloom
\* set and fov, 1e-4 radian): a release nothing; a press of `[` or `]` plus
\* or minus 2 degrees within [0, 180 degrees]; a press of a parameter's key
\* plus or minus dt/10, within [0, 1] for four of the parameters, at least 0
\* for the threshold, unlimited for the low-frequency boost.
C12_AfterEvent(p, ev, dt) ==
    LET k == ev.key_code
        up == k \in {"BracketLeft", "KeyP", "KeyO", "KeyI", "KeyU", "KeyT", "KeyR"}
        by == IF k \in {"BracketLeft", "BracketRight"} THEN ToRadians(2) ELSE dt \div 10
        field == CASE k \in {"BracketLeft", "BracketRight"} -> "fov"
                   [] k \in {"KeyP", "Semicolon"} -> "intensity"
                   [] k \in {"KeyO", "KeyL"} -> "low_frequency_boost"
                   [] k \in {"KeyI", "KeyK"} -> "low_frequency_boost_curvature"
                   [] k \in {"KeyU", "KeyJ"} -> "high_pass_frequency"
                   [] k \in {"KeyT", "KeyG"} -> "threshold"
                   [] k \in {"KeyR", "KeyF"} -> "threshold_softness"
        v == IF up THEN p[field] + by ELSE p[field] - by
        top == IF field = "fov" THEN ToRadians(180) ELSE One
        limited == IF field = "low_frequency_boost" THEN v
                   ELSE IF v < 0 THEN 0
                   ELSE IF field # "threshold" /\ v > top THEN top
                   ELSE v
    IN  IF ev.state = "Released" THEN p ELSE [p EXCEPT ![field] = limited]

RECURSIVE C12_AfterEvents(_, _, _)
C12_AfterEvents(p, evs, dt) ==
    IF evs = <<>> THEN p
    ELSE C12_AfterEvents(C12_AfterEvent(p, Head(evs), dt), Tail(evs), dt)

\* The bloom set and the field of view as one record of parameters.
C12_Parameters(bloom, persp_fov) ==
    [intensity |-> bloom.intensity,
     low_frequency_boost |-> bloom.low_frequency_boost,
     low_frequency_boost_curvature |-> bloom.low_frequency_boost_curvature,
     high_pass_frequency |-> bloom.high_pass_frequency,
     threshold |-> bloom.threshold,
     threshold_softness |-> bloom.threshold_softness,
     fov |-> persp_fov]

\* C12: a controller step of Bloom-Enabled whose events are presses and
\* releases of the fourteen adjustment keys leaves the parameters as applying
\* the events one by one in order leaves them: each `[` or `]` press 2 degrees
\* up or down whatever dt, each parameter key press dt/10 up or down, the
\* limit of the parameter's range applied after each single event (none for
\* the low-frequency boost), releases nothing; the composite mode is as it
\* was.
C12_EachPressItsOwnAdjustment ==
    [][(/\ ControllerStep
        /\ camera_bloom # <<>>
        /\ \A i \in 1..Len(Unread(World)) : Unread(World)[i].key_code \in AdjustKeys)
           => /\ camera_bloom' # <<>>
              /\ C12_Parameters(camera_bloom'[1], fov') =
                     C12_AfterEvents(C12_Parameters(camera_bloom[1], fov),
                                     Unread(World), delta)
              /\ camera_bloom'[1].composite_mode = camera_bloom[1].composite_mode]_vars

\* C12's case: the controller has run in the second frame; the field of view
\* is 178 degrees, which from 75 degrees in steps of 2 only a stop at 180
\* degrees followed by a step down gives, and the intensity is 0.1, which
\* from 0.15 in steps of 0.1 only a stop at 0 followed by a step up gives.
C12_Witness ==
    /\ frame = 1
    /\ phase = "update"
    /\ "update_bloom_settings" \in ran
    /\ camera_bloom # <<>>
    /\ fov = ToRadians(180) - Increase
    /\ camera_bloom[1].intensity = 100

\* C13, as claimed: for every hash value h, ((h mod 6) + 4) mod 6 selects the
\* same material as (h - 2) mod 6 with h - 2 computed by wrapping 64-bit
\* subtraction.
C13_Claimed ==
    MaterialOf((Mod6(hash) + 4) % 6) = MaterialOf(Mod6(WrappingSub2(hash)))

\* C14: a controller step that finds the camera without a bloom set changes
\* nothing but the text, which becomes the toggle hint, and the command queue,
\* which gains the insertion of the preset exactly if Space was just pressed:
\* the field of view, the spheres, the entities and the unread key events are
\* as they were, whatever keys were pressed; and the frame ends with the
\* field of view unchanged and with the NATURAL set on the camera exactly if
\* Space was just pressed.
C14_DisabledStepOnlyTextAndToggle ==
    [][/\ (ControllerStep /\ camera_bloom = <<>>)
              => /\ text' = OffText
                 /\ commands' = IF space_just_pressed
                                 THEN Append(commands, "insert") ELSE commands
                 /\ camera_bloom' = <<>>
                 /\ fov' = fov
                 /\ spheres' = spheres
                 /\ entities' = entities
                 /\ events_a' = events_a
                 /\ events_b' = events_b
       /\ (FrameEndStep /\ camera_bloom = <<>>)
              => /\ fov' = fov
                 /\ camera_bloom' = IF space_just_pressed THEN <<NATURAL>> ELSE <<>>]_vars

\* C14's case: the controller has run in a frame without a bloom set for
\* which a `[` press was delivered and Space was not just pressed; the text is
\* the hint and the field of view is the initial one.
C14_Witness ==
    /\ phase = "update"
    /\ "update_bloom_settings" \in ran
    /\ camera_bloom = <<>>
    /\ ~space_just_pressed
    /\ \E i \in 1..Len(Unread(World)) : Unread(World)[i] = Pressed("BracketLeft")
    /\ text = OffText
    /\ commands = <<>>
    /\ fov = ToRadians(INITIAL_FOV)

\* The mode keys among the press events evs, in order.
C15_ModePresses(evs) ==
    SelectSeq(evs, LAMBDA ev : ev \in {Pressed("KeyY"), Pressed("KeyH")})

\* C15: a controller step of Bloom-Enabled sets the composite mode to what the
\* last mode key pressed among its events says, Additive for Y and
\* Energy-conserving for H, whatever the mode was and whatever dt, and leaves
\* the mode as it was without such a press; when the events are mode keys
\* only, every other parameter and the field of view are as they were; and a
\* second press of the same mode key changes nothing the first has not.
C15_ModeKeysSetTheMode ==
    [][(ControllerStep /\ camera_bloom # <<>>) =>
          LET evs == Unread(World)
              modes == C15_ModePresses(evs)
              st == [bloom_settings |-> camera_bloom[1], fov |-> fov, commands |-> <<>>]
          IN  /\ camera_bloom' # <<>>
              /\ camera_bloom'[1].composite_mode =
                     IF modes = <<>> THEN camera_bloom[1].composite_mode
                     ELSE IF modes[Len(modes)].key_code = "KeyY" THEN "Additive"
                     ELSE "EnergyConserving"
              /\ (\A i \in 1..Len(evs) : evs[i].key_code \in {"KeyY", "KeyH"})
                     => /\ fov' = fov
                        /\ camera_bloom'[1] =
                               [camera_bloom[1] EXCEPT !.composite_mode =
                                   camera_bloom'[1].composite_mode]
              /\ \A k \in {"KeyY", "KeyH"} :
                     KeyEvents(st, <<Pressed(k), Pressed(k)>>, delta)
                         = KeyEvents(st, <<Pressed(k)>>, delta)]_vars

\* C15's case: the mode was Additive when the second frame began (the text
\* shows it), so Y had set it from Energy-conserving; in the second frame,
\* one second long, H has set it back and the set is the preset again.
C15_Witness ==
    /\ frame = 1
    /\ phase = "update"
    /\ "update_bloom_settings" \in ran
    /\ delta = 1000
    /\ text.shown # <<>>
    /\ text.shown[1].mode = "Additive"
    /\ camera_bloom = <<NATURAL>>

\* C16: in every state of the frame loop the camera query, the text query and
\* the projection query match exactly one entity each and the Bouncing query
\* matches 100, one for each cell (x, z) with x and z in -5..4, placed at
\* (2x, 2z); the entities are those setup_scene spawned, each with the
\* components it was spawned with except for the camera's bloom set, which is
\* on that camera exactly when bloom is enabled.
C16_EntitiesAreThoseSpawned ==
    /\ Cardinality(QueryWith(entities, "Camera")) = 1
    /\ Cardinality(QueryWith(entities, "Text")) = 1
    /\ Cardinality(QueryWith(entities, "FlyCam")) = 1
    /\ QueryWith(entities, "FlyCam") = QueryWith(entities, "Projection")
    /\ Cardinality(QueryWith(entities, "Bouncing")) = 100
    /\ Cells = (-5..4) \X (-5..4)
    /\ QueryWith(entities, "Bouncing") = {SphereEntity(c) : c \in Cells}
    /\ Cardinality({SphereEntity(c) : c \in Cells}) = 100
    /\ \A c \in Cells : spheres[c].x = 2000 * c[1] /\ spheres[c].z = 2000 * c[2]
    /\ DOMAIN entities = DOMAIN SpawnedEntities
    /\ \A e \in DOMAIN entities :
           entities[e] \ {"BloomSettings"} = SpawnedComponents(e) \ {"BloomSettings"}
    /\ QueryWith(entities, "BloomSettings") =
           IF camera_bloom = <<>> THEN {} ELSE QueryWith(entities, "Camera")

\* C16's case: bloom has been toggled off and on again: two frames have
\* ended, the last one began without a bloom set (the text is the hint) and
\* has put the set on the camera.
C16_Witness ==
    /\ frame >= 2
    /\ phase = "idle"
    /\ text = OffText
    /\ camera_bloom # <<>>
    /\ "BloomSettings" \in entities[CameraEntity]

====
